---- MODULE Spec2Model ----
(***************************************************************************)
(* The FlowCanvas component of the workflow builder: the React state of    *)
(* the canvas (nodes, edges, result, the parameter modal), its user        *)
(* callbacks (drop, connect, node click, parameter change / submit /       *)
(* cancel, save, execute), its two socket handlers (node_processing,       *)
(* execution_complete) and the effect that registers them on the module's  *)
(* socket at mount and removes them at unmount.                            *)
(*                                                                         *)
(* The repository holds two versions of the component:                     *)
(*   src/src/FlowCanvas.js   no parameter validation; reports save and     *)
(*                           execute failures to the user                  *)
(*   src/unnamed/part_001    validateRequiredFields before the commit;     *)
(*                           failures only go to the console               *)
(* The variable build says which one runs; it never changes.               *)
(*                                                                         *)
(* Text (a drag payload, a parameter value, a node id) is a sequence of    *)
(* lexical tokens, so that JSON.stringify / JSON.parse and the id template *)
(* are computed, not assumed.                                              *)
(*                                                                         *)
(* Not modelled: the input box of the execute request (no handler reads it *)
(* back), and the changes React Flow itself applies through onNodesChange  *)
(* and onEdgesChange (dragging, selecting).                                *)
(***************************************************************************)
EXTENDS Integers, Sequences, FiniteSets, TLC

VARIABLES
    build,          \* which version of FlowCanvas runs
    mounted,        \* whether the component is rendered
    listeners,      \* the shared socket: handlers registered per event
    mounts,         \* history: how many times the component was mounted
    nodes,          \* useNodesState: sequence of node records
    edges,          \* useEdgesState: sequence of edge records
    result,         \* useState(''): the run's result text
    showModal,      \* useState(false)
    selectedNode,   \* useState(null): the node object passed to onNodeClick
    nodeParams,     \* useState({}): the draft of the parameter modal
    executing,      \* execute requests awaiting their response
    created,        \* history: the Date.now() / Math.random() draw of each node
    edits,          \* history: number of field edits so far
    last            \* history: the handler that ran last and what it did

vars == <<build, mounted, listeners, mounts, nodes, edges, result, showModal, selectedNode, nodeParams,
          executing, created, edits, last>>

----------------------------------------------------------------------------
(* Bounds *)

MaxNodes == 2
MaxEdges == 1
MaxEdits == 2
MaxExecuting == 1
MaxMounts == 2

----------------------------------------------------------------------------
(* Text *)

LBrace == [t |-> "{", v |-> ""]
RBrace == [t |-> "}", v |-> ""]
Colon  == [t |-> ":", v |-> ""]
Comma  == [t |-> ",", v |-> ""]
Str(s)  == [t |-> "str", v |-> s]      \* a string literal "s"
Word(w) == [t |-> "word", v |-> w]     \* a bare word: null, 1, x, ...

Undefined == "undefined"
Null == "null"

EmptyText == << >>

\* JS truthiness of a string or of undefined
Truthy(x) == x # Undefined /\ x # EmptyText

\* x || dflt
OrElse(x, dflt) == IF Truthy(x) THEN x ELSE dflt

----------------------------------------------------------------------------
(* JSON, on the subset of flat objects and scalars *)

JSONWords == {"null", "true", "false", "1"}

IsScalar(tok) == tok.t = "str" \/ (tok.t = "word" /\ tok.v \in JSONWords)

ScalarValue(tok) ==
    IF tok.t = "str" THEN [kind |-> "string", v |-> tok.v, members |-> << >>]
    ELSE IF tok.v = "null" THEN [kind |-> "null", v |-> Null, members |-> << >>]
    ELSE IF tok.v = "1" THEN [kind |-> "number", v |-> tok.v, members |-> << >>]
    ELSE [kind |-> "boolean", v |-> tok.v, members |-> << >>]

SyntaxError == [ok |-> FALSE, value |-> [kind |-> "none", v |-> Undefined, members |-> << >>]]

Parsed(val) == [ok |-> TRUE, value |-> val]

ObjectValue(ms) == [kind |-> "object", v |-> Undefined, members |-> ms]

\* the members of an object from position i on: "key" : scalar, then } or ,
RECURSIVE ParseMembers(_, _, _)
ParseMembers(text, i, ms) ==
    IF i + 3 > Len(text) THEN SyntaxError
    ELSE IF text[i].t # "str" \/ text[i + 1] # Colon \/ ~IsScalar(text[i + 2])
    THEN SyntaxError
    ELSE LET k == text[i].v
             ms2 == [x \in (DOMAIN ms) \cup {k} |->
                        IF x = k THEN ScalarValue(text[i + 2]) ELSE ms[x]]
         IN  IF text[i + 3] = RBrace
             THEN IF i + 3 = Len(text) THEN Parsed(ObjectValue(ms2)) ELSE SyntaxError
             ELSE IF text[i + 3] = Comma THEN ParseMembers(text, i + 4, ms2)
             ELSE SyntaxError

JSONParse(text) ==
    IF Len(text) = 1 /\ IsScalar(text[1]) THEN Parsed(ScalarValue(text[1]))
    ELSE IF Len(text) >= 2 /\ text[1] = LBrace
    THEN IF text[2] = RBrace
         THEN IF Len(text) = 2 THEN Parsed(ObjectValue(<< >>)) ELSE SyntaxError
         ELSE ParseMembers(text, 2, << >>)
    ELSE SyntaxError

\* JSON.stringify(tool); of the tool's members only name is read back at drop
JSONStringify(tool) == <<LBrace, Str("name"), Colon, Str(tool.name), RBrace>>

\* a slip: value.label read for value.name
NameOfLabel(value) ==
    IF value.kind = "object" /\ "label" \in DOMAIN value.members
    THEN value.members["label"].v
    ELSE Undefined

\* value.name
NameOf(value) ==
    IF value.kind = "object" /\ "name" \in DOMAIN value.members
    THEN value.members["name"].v
    ELSE Undefined

----------------------------------------------------------------------------
(* The tool catalog: the tools prop, fetched by App from GET /tools *)

Param(name, type, required) == [name |-> name, type |-> type, required |-> required]

tools ==
    << [name |-> "llm_tool",
        parameters |-> <<Param("apiKey", "text", TRUE)>>],
       [name |-> "fetch_from_rest_api_tool",
        parameters |-> <<Param("headers", "textarea", FALSE),
                         Param("body", "textarea", FALSE)>>],
       [name |-> "search_tool",
        parameters |-> <<Param("query", "text", TRUE)>>] >>

ToolNames == {tools[i].name : i \in DOMAIN tools}

\* tools.reduce(...)[label]: the parameter schema of a tool; none for a label
\* that names no tool (toolParameters[label]?.map renders nothing)
toolParameters(label) ==
    IF label \in ToolNames
    THEN (CHOOSE tool \in {tools[i] : i \in DOMAIN tools} : tool.name = label).parameters
    ELSE << >>

ParamNames(label) == {toolParameters(label)[i].name : i \in DOMAIN toolParameters(label)}

\* what the user can type into a field: "", "{}", "{x"
ParamTexts == {EmptyText, <<LBrace, RBrace>>, <<LBrace, Word("x")>>}

\* params[name]
Get(params, name) == IF name \in DOMAIN params THEN params[name] ELSE Undefined

\* { ...prev, [paramName]: value }
Put(prev, paramName, value) ==
    [k \in (DOMAIN prev) \cup {paramName} |-> IF k = paramName THEN value ELSE prev[k]]

EmptyParams == << >>

----------------------------------------------------------------------------
(* Node ids *)

\* values of Date.now()
Ticks == {1, 11}

\* values of Math.random().toString(36): "0.1", "0.11"
RandomStrings == {<<"0", ".", "1">>, <<"0", ".", "1", "1">>}

Min(a, b) == IF a < b THEN a ELSE b

\* s.substr(start, length)
Substr(s, start, length) == SubSeq(s, start + 1, Min(start + length, Len(s)))

DigitChars == <<"0", "1", "2", "3", "4", "5", "6", "7", "8", "9">>

\* the decimal text of a number, as the template literal prints it
RECURSIVE Digits(_)
Digits(n) ==
    IF n < 10 THEN <<DigitChars[n + 1]>>
    ELSE Digits(n \div 10) \o <<DigitChars[(n % 10) + 1]>>

\* a slip: the template without its "-"
UniqueIdUnseparated(now, random) == Digits(now) \o Substr(random, 2, 9)

\* `${Date.now()}-${Math.random().toString(36).substr(2, 9)}`
UniqueId(now, random) == Digits(now) \o <<"-">> \o Substr(random, 2, 9)

\* every id a drop can generate
NodeIds == {UniqueId(t, r) : t \in Ticks, r \in RandomStrings}

\* the id of a node of an earlier graph, which the executor may still name
StaleId == <<"0", "-", "0">>

NoId == << >>

----------------------------------------------------------------------------
(* Nodes and edges *)

\* screen points of a drop
DropPoints == {[x |-> 100, y |-> 100]}

\* the canvas transform at its default viewport (x 0, y 0, zoom 1)
screenToFlowPosition(p) == [x |-> p.x, y |-> p.y]

\* { id, type: 'default', data: { label, parameters: {} }, position }; a node
\* carries no style until a status event gives it one
NewNode(uniqueId, label, position) ==
    [id |-> uniqueId, label |-> label, parameters |-> EmptyParams,
     position |-> position, backgroundColor |-> Undefined]

\* a slip: the last two colours the wrong way round
StatusColorSwapped(status) ==
    IF status = "processing" THEN "yellow"
    ELSE IF status = "completed" THEN "red"
    ELSE "lightgreen"

\* status === 'processing' ? 'yellow' : status === 'completed' ? 'lightgreen' : 'red'
StatusColor(status) ==
    IF status = "processing" THEN "yellow"
    ELSE IF status = "completed" THEN "lightgreen"
    ELSE "red"

\* the runtime status a node shows
RuntimeStatus(node) ==
    IF node.backgroundColor = Undefined THEN "idle"
    ELSE IF node.backgroundColor = "yellow" THEN "processing"
    ELSE IF node.backgroundColor = "lightgreen" THEN "completed"
    ELSE "failed"

Statuses == {"processing", "completed", "failed"}

\* a slip: the map without its id test
SetBackgroundEvery(nds, nodeId, status) ==
    [i \in DOMAIN nds |-> [nds[i] EXCEPT !.backgroundColor = StatusColor(status)]]

\* nds.map(node => node.id === nodeId ? {...node, style: {..., backgroundColor}} : node)
SetBackground(nds, nodeId, status) ==
    [i \in DOMAIN nds |->
        IF nds[i].id = nodeId
        THEN [nds[i] EXCEPT !.backgroundColor = StatusColor(status)]
        ELSE nds[i]]

\* a slip: filter before the map, so that the nodes without a colour are lost
ResetBackgroundOfColoured(nds) ==
    [i \in DOMAIN SelectSeq(nds, LAMBDA node : node.backgroundColor # Undefined) |->
        [SelectSeq(nds, LAMBDA node : node.backgroundColor # Undefined)[i]
            EXCEPT !.backgroundColor = Undefined]]

\* a slip: only the nodes still processing are cleared
ResetBackgroundProcessing(nds) ==
    [i \in DOMAIN nds |->
        IF nds[i].backgroundColor = "yellow"
        THEN [nds[i] EXCEPT !.backgroundColor = Undefined]
        ELSE nds[i]]

\* nds.map(node => ({...node, style: {...node.style, backgroundColor: undefined}}))
ResetBackground(nds) ==
    [i \in DOMAIN nds |-> [nds[i] EXCEPT !.backgroundColor = Undefined]]

\* a slip: filter for map, so that only the edited node is kept
SetParametersOnly(nds, id, parameters) ==
    [i \in DOMAIN SelectSeq(nds, LAMBDA node : node.id = id) |->
        [SelectSeq(nds, LAMBDA node : node.id = id)[i] EXCEPT !.parameters = parameters]]

\* a slip: the map without its id test
SetParametersEvery(nds, id, parameters) ==
    [i \in DOMAIN nds |-> [nds[i] EXCEPT !.parameters = parameters]]

\* nds.map(node => node.id === id ? {...node, data: {...node.data, parameters}} : node)
SetParameters(nds, id, parameters) ==
    [i \in DOMAIN nds |->
        IF nds[i].id = id THEN [nds[i] EXCEPT !.parameters = parameters] ELSE nds[i]]

\* addEdge of @xyflow/react: no edge without both ends, no second edge with
\* the same ends, else eds.concat(edge)
addEdge(params, eds) ==
    IF params.source = NoId \/ params.target = NoId THEN eds
    ELSE IF \E i \in DOMAIN eds :
                eds[i].source = params.source /\ eds[i].target = params.target
    THEN eds
    ELSE Append(eds, [source |-> params.source, target |-> params.target])

Ids(nds) == {nds[i].id : i \in DOMAIN nds}

----------------------------------------------------------------------------
(* The state after construction *)

Builds == {"src/FlowCanvas.js", "part_001"}

NullNode == [isNull |-> TRUE]

\* socket.on / socket.off on the module's socket, as counts of handlers
NoListeners == [node_processing |-> 0, execution_complete |-> 0]

\* socket.on(event, handler): one more handler of the event
On(ls, event) == [ls EXCEPT ![event] = @ + 1]

\* a slip: off(event, handler) with a handler that was never registered, which
\* removes nothing
OffOther(ls, event) == ls

\* socket.off(event): every handler of the event is removed
Off(ls, event) == [ls EXCEPT ![event] = 0]

\* what the handler that ran last did: its name; the node id it was given or
\* made (for a connect the source, with the target beside it; for a click the
\* node clicked, with the node whose edited draft was open beside it); the status or
\* result an event carried, or the result an execute cleared; the payload of a
\* drop; whether it threw; the alert it showed; how many registered handlers
\* an event was given to; and the runtime statuses from before: of all nodes
\* for the two resets, of the named node for a status event, of the selected
\* node as the modal opened for a submit
Did(op, id) ==
    [op |-> op, id |-> id, target |-> NoId, arg |-> "", text |-> EmptyText,
     threw |-> FALSE, alert |-> "", applied |-> 0, prior |-> {}]

Init ==
    /\ build \in Builds
    /\ mounted = TRUE
    /\ listeners = On(On(NoListeners, "node_processing"), "execution_complete")
    /\ mounts = 1
    /\ nodes = << >>
    /\ edges = << >>
    /\ result = ""
    /\ showModal = FALSE
    /\ selectedNode = NullNode
    /\ nodeParams = EmptyParams
    /\ executing = 0
    /\ created = << >>
    /\ edits = 0
    /\ last = Did("init", NoId)

----------------------------------------------------------------------------
(* The socket handlers *)

PriorStatuses(nds) == {RuntimeStatus(nds[i]) : i \in DOMAIN nds}

PriorStatusesOf(nds, nodeId) ==
    {RuntimeStatus(nds[i]) : i \in {j \in DOMAIN nds : nds[j].id = nodeId}}

\* the n handlers of node_processing, one after the other
RECURSIVE NodeProcessingHandlers(_, _, _, _)
NodeProcessingHandlers(n, nds, nodeId, status) ==
    IF n = 0 THEN nds
    ELSE NodeProcessingHandlers(n - 1, SetBackground(nds, nodeId, status), nodeId, status)

\* the n handlers of execution_complete, one after the other
RECURSIVE ExecutionCompleteHandlers(_, _)
ExecutionCompleteHandlers(n, nds) ==
    IF n = 0 THEN nds ELSE ExecutionCompleteHandlers(n - 1, ResetBackground(nds))

\* the socket receives node_processing { nodeId, status }: each handler that
\* socket.on('node_processing', ...) registered runs setNodes(...)
NodeProcessing(nodeId, status) ==
    /\ nodes' = NodeProcessingHandlers(listeners.node_processing, nodes, nodeId, status)
    /\ last' = [Did("node_processing", nodeId)
                   EXCEPT !.arg = status, !.applied = listeners.node_processing,
                          !.prior = PriorStatusesOf(nodes, nodeId)]
    /\ UNCHANGED <<build, mounted, listeners, mounts, edges, result, showModal, selectedNode, nodeParams,
                   executing, created, edits>>

\* results the executor reports
Results == {"done"}

\* the socket receives execution_complete { result }: each handler that
\* socket.on('execution_complete', ...) registered runs setResult(result) and
\* setNodes(...)
ExecutionComplete(res) ==
    /\ result' = IF listeners.execution_complete > 0 THEN res ELSE result
    /\ nodes' = ExecutionCompleteHandlers(listeners.execution_complete, nodes)
    /\ last' = [Did("execution_complete", NoId)
                   EXCEPT !.arg = res, !.applied = listeners.execution_complete,
                          !.prior = PriorStatuses(nodes)]
    /\ UNCHANGED <<build, mounted, listeners, mounts, edges, showModal, selectedNode, nodeParams,
                   executing, created, edits>>

----------------------------------------------------------------------------
(* Drop and connect *)

\* what event.dataTransfer.getData('application/reactflow') can return: ""
\* (no such key), a tool of the catalog as onDragStart wrote it, "{}", "null",
\* "{x"
DropTexts ==
    {EmptyText} \cup {JSONStringify(tools[i]) : i \in DOMAIN tools}
        \cup {<<LBrace, RBrace>>, <<Word("null")>>, <<LBrace, Word("x")>>}

\* onDrop, after the early return: JSON.parse throws on malformed text, and
\* tool.name throws on null
DropThrows(toolData) ==
    \/ ~JSONParse(toolData).ok
    \/ JSONParse(toolData).value.kind = "null"

\* the node onDrop builds
DroppedNode(toolData, point, now, random) ==
    NewNode(UniqueId(now, random), NameOf(JSONParse(toolData).value),
            screenToFlowPosition(point))

OnDrop(toolData, point, now, random) ==
    /\ mounted
    /\ Len(nodes) < MaxNodes
    /\ IF ~Truthy(toolData)
       THEN /\ last' = [Did("drop", NoId) EXCEPT !.text = toolData]
            /\ UNCHANGED <<nodes, created>>
       ELSE IF DropThrows(toolData)
       THEN /\ last' = [Did("drop", NoId) EXCEPT !.text = toolData, !.threw = TRUE]
            /\ UNCHANGED <<nodes, created>>
       ELSE /\ nodes' = nodes \o <<DroppedNode(toolData, point, now, random)>>
            /\ created' = Append(created, [now |-> now, random |-> random])
            /\ last' = [Did("drop", UniqueId(now, random)) EXCEPT !.text = toolData]
    /\ UNCHANGED <<build, mounted, listeners, mounts, edges, result, showModal, selectedNode, nodeParams,
                   executing, edits>>

\* onConnect: React Flow connects handles of nodes on the canvas, of two nodes
\* or of one
OnConnect(source, target) ==
    /\ mounted
    /\ source \in Ids(nodes)
    /\ target \in Ids(nodes)
    /\ Len(addEdge([source |-> source, target |-> target], edges)) <= MaxEdges
    /\ edges' = addEdge([source |-> source, target |-> target], edges)
    /\ last' = [Did("connect", source) EXCEPT !.target = target]
    /\ UNCHANGED <<build, mounted, listeners, mounts, nodes, result, showModal, selectedNode, nodeParams,
                   executing, created, edits>>

----------------------------------------------------------------------------
(* The parameter modal *)

\* setSelectedNode(node): the node object as it was at the click; the handlers
\* and the modal read selectedNode.id and selectedNode.data.label only
Selected(node) ==
    [id |-> node.id, label |-> node.label, backgroundColor |-> node.backgroundColor]

\* the node the modal is open on with a draft that differs from what the node
\* stores, NoId when there is none
EditedId ==
    IF /\ showModal
       /\ selectedNode # NullNode
       /\ \E j \in DOMAIN nodes :
             nodes[j].id = selectedNode.id /\ nodes[j].parameters # nodeParams
    THEN selectedNode.id
    ELSE NoId

\* a slip: the selected node is set only when there is none
OnNodeClickKeepSelected(i) ==
    /\ mounted
    /\ i \in DOMAIN nodes
    /\ selectedNode' = IF selectedNode = NullNode THEN Selected(nodes[i]) ELSE selectedNode
    /\ nodeParams' = nodes[i].parameters
    /\ showModal' = TRUE
    /\ last' = [Did("click", nodes[i].id) EXCEPT !.target = EditedId]
    /\ UNCHANGED <<build, mounted, listeners, mounts, nodes, edges, result, executing, created, edits>>

\* a slip: the draft is not loaded from the node
OnNodeClickKeepDraft(i) ==
    /\ mounted
    /\ i \in DOMAIN nodes
    /\ selectedNode' = Selected(nodes[i])
    /\ showModal' = TRUE
    /\ last' = [Did("click", nodes[i].id) EXCEPT !.target = EditedId]
    /\ UNCHANGED <<build, mounted, listeners, mounts, nodes, edges, result, nodeParams, executing, created, edits>>

\* onNodeClick(event, node)
OnNodeClick(i) ==
    /\ mounted
    /\ i \in DOMAIN nodes
    /\ selectedNode' = Selected(nodes[i])
    /\ nodeParams' = nodes[i].parameters
    /\ showModal' = TRUE
    /\ last' = [Did("click", nodes[i].id) EXCEPT !.target = EditedId]
    /\ UNCHANGED <<build, mounted, listeners, mounts, nodes, edges, result, executing, created, edits>>

\* the modal is rendered when showModal && selectedNode
ModalOpen == mounted /\ showModal /\ selectedNode # NullNode

\* a slip: the field writes through to the node
HandleParamChangeLive(paramName, value) ==
    /\ ModalOpen
    /\ edits < MaxEdits
    /\ paramName \in ParamNames(selectedNode.label)
    /\ nodeParams' = Put(nodeParams, paramName, value)
    /\ nodes' = SetParameters(nodes, selectedNode.id, Put(nodeParams, paramName, value))
    /\ edits' = edits + 1
    /\ last' = Did("change", selectedNode.id)
    /\ UNCHANGED <<build, mounted, listeners, mounts, edges, result, showModal, selectedNode, executing, created>>

\* handleParamChange(param.name, e.target.value), from a field of the modal
HandleParamChange(paramName, value) ==
    /\ ModalOpen
    /\ edits < MaxEdits
    /\ paramName \in ParamNames(selectedNode.label)
    /\ nodeParams' = Put(nodeParams, paramName, value)
    /\ edits' = edits + 1
    /\ last' = Did("change", selectedNode.id)
    /\ UNCHANGED <<build, mounted, listeners, mounts, nodes, edges, result, showModal, selectedNode,
                   executing, created>>

\* validateRequiredFields(params, toolName): the alert it shows, "" when it
\* returns true
validateRequiredFields(params, toolName) ==
    IF toolName = "llm_tool" /\ ~Truthy(Get(params, "apiKey"))
    THEN "API Key is required for llm_tool"
    ELSE IF toolName = "fetch_from_rest_api_tool"
    THEN IF ~JSONParse(OrElse(Get(params, "headers"), <<LBrace, RBrace>>)).ok
         THEN "Invalid JSON in headers"
         ELSE IF ~JSONParse(OrElse(Get(params, "body"), <<LBrace, RBrace>>)).ok
         THEN "Invalid JSON in body"
         ELSE ""
    ELSE ""

\* the check handleParamSubmit makes before it commits: only part_001 has one
SubmitAlert(params, toolName) ==
    IF build = "part_001" THEN validateRequiredFields(params, toolName) ELSE ""

\* a slip: the node object of the click written back, not the node of now
HandleParamSubmitStale ==
    /\ ModalOpen
    /\ IF SubmitAlert(nodeParams, selectedNode.label) # ""
       THEN /\ last' = [Did("submit", selectedNode.id)
                           EXCEPT !.alert = SubmitAlert(nodeParams, selectedNode.label)]
            /\ UNCHANGED <<nodes, showModal, selectedNode, nodeParams>>
       ELSE /\ nodes' = [i \in DOMAIN nodes |->
                            IF nodes[i].id = selectedNode.id
                            THEN [nodes[i] EXCEPT
                                     !.parameters = nodeParams,
                                     !.backgroundColor = selectedNode.backgroundColor]
                            ELSE nodes[i]]
            /\ showModal' = FALSE
            /\ selectedNode' = NullNode
            /\ nodeParams' = EmptyParams
            /\ last' = [Did("submit", selectedNode.id)
                           EXCEPT !.prior = {RuntimeStatus(selectedNode)}]
    /\ UNCHANGED <<build, mounted, listeners, mounts, edges, result, executing, created, edits>>

\* handleParamSubmit, from the Save button of the modal
HandleParamSubmit ==
    /\ ModalOpen
    /\ IF SubmitAlert(nodeParams, selectedNode.label) # ""
       THEN /\ last' = [Did("submit", selectedNode.id)
                           EXCEPT !.alert = SubmitAlert(nodeParams, selectedNode.label)]
            /\ UNCHANGED <<nodes, showModal, selectedNode, nodeParams>>
       ELSE /\ nodes' = SetParameters(nodes, selectedNode.id, nodeParams)
            /\ showModal' = FALSE
            /\ selectedNode' = NullNode
            /\ nodeParams' = EmptyParams
            /\ last' = [Did("submit", selectedNode.id)
                           EXCEPT !.prior = {RuntimeStatus(selectedNode)}]
    /\ UNCHANGED <<build, mounted, listeners, mounts, edges, result, executing, created, edits>>

\* the Cancel button: () => setShowModal(false)
Cancel ==
    /\ ModalOpen
    /\ showModal' = FALSE
    /\ last' = Did("cancel", selectedNode.id)
    /\ UNCHANGED <<build, mounted, listeners, mounts, nodes, edges, result, selectedNode, nodeParams,
                   executing, created, edits>>

----------------------------------------------------------------------------
(* Save and execute *)

\* a node as JSON.stringify writes it into the request body: id, data.label,
\* data.parameters, position, and of style the entries that have a value
Serialized(node) ==
    [id |-> node.id, label |-> node.label, parameters |-> node.parameters,
     position |-> node.position,
     style |-> IF node.backgroundColor = Undefined THEN {}
               ELSE {<<"backgroundColor", node.backgroundColor>>}]

\* { id: 'workflow1', nodes, edges } as sent
Document(nds, eds) ==
    [id |-> "workflow1", nodes |-> [i \in DOMAIN nds |-> Serialized(nds[i])],
     edges |-> eds]

\* the body of the save request
SaveDocument == Document(nodes, edges)

\* messages of the save endpoint
SaveMessages == {"Workflow saved"}

\* saveWorkflow, the request answered: alert(response.data.message)
SaveWorkflowOk(message) ==
    /\ mounted
    /\ last' = [Did("save", NoId) EXCEPT !.alert = message]
    /\ UNCHANGED <<build, mounted, listeners, mounts, nodes, edges, result, showModal, selectedNode,
                   nodeParams, executing, created, edits>>

\* saveWorkflow, the request failed: only src/FlowCanvas.js alerts
SaveWorkflowFailed ==
    /\ mounted
    /\ last' = [Did("save_failed", NoId) EXCEPT
                   !.alert = IF build = "src/FlowCanvas.js"
                             THEN "Failed to save workflow" ELSE ""]
    /\ UNCHANGED <<build, mounted, listeners, mounts, nodes, edges, result, showModal, selectedNode,
                   nodeParams, executing, created, edits>>

\* a slip: the request sent without the reset of the nodes
ExecuteWorkflowUnreset ==
    /\ mounted
    /\ executing < MaxExecuting
    /\ result' = ""
    /\ executing' = executing + 1
    /\ last' = [Did("execute", NoId) EXCEPT !.arg = result, !.prior = PriorStatuses(nodes)]
    /\ UNCHANGED <<build, mounted, listeners, mounts, nodes, edges, showModal, selectedNode,
                   nodeParams, created, edits>>

\* executeWorkflow up to its await: setResult(''), the reset, the request
ExecuteWorkflow ==
    /\ mounted
    /\ executing < MaxExecuting
    /\ result' = ""
    /\ nodes' = ResetBackground(nodes)
    /\ executing' = executing + 1
    /\ last' = [Did("execute", NoId) EXCEPT !.arg = result, !.prior = PriorStatuses(nodes)]
    /\ UNCHANGED <<build, mounted, listeners, mounts, edges, showModal, selectedNode,
                   nodeParams, created, edits>>

\* the execute request answered: nothing more to do
ExecuteAnswered ==
    /\ mounted
    /\ executing > 0
    /\ executing' = executing - 1
    /\ last' = Did("execute_response", NoId)
    /\ UNCHANGED <<build, mounted, listeners, mounts, nodes, edges, result, showModal, selectedNode,
                   nodeParams, created, edits>>

\* the execute request failed: only src/FlowCanvas.js sets the result
ExecuteFailed ==
    /\ mounted
    /\ executing > 0
    /\ executing' = executing - 1
    /\ result' = IF build = "src/FlowCanvas.js" THEN "Error executing workflow" ELSE result
    /\ last' = Did("execute_failed", NoId)
    /\ UNCHANGED <<build, mounted, listeners, mounts, nodes, edges, showModal, selectedNode, nodeParams,
                   created, edits>>

----------------------------------------------------------------------------
(* Mount and unmount *)

\* the component is rendered: its state hooks take their initial values and
\* the effect registers the two handlers
Mount ==
    /\ ~mounted
    /\ mounts < MaxMounts
    /\ mounted' = TRUE
    /\ mounts' = mounts + 1
    /\ listeners' = On(On(listeners, "node_processing"), "execution_complete")
    /\ nodes' = << >>
    /\ edges' = << >>
    /\ result' = ""
    /\ showModal' = FALSE
    /\ selectedNode' = NullNode
    /\ nodeParams' = EmptyParams
    /\ last' = Did("mount", NoId)
    /\ UNCHANGED <<build, executing, created, edits>>

\* the component is removed: the cleanup of the effect runs socket.off for
\* both events, and the state of the instance is gone with it, as are the
\* requests it was waiting for
Unmount ==
    /\ mounted
    /\ mounted' = FALSE
    /\ listeners' = Off(Off(listeners, "node_processing"), "execution_complete")
    /\ nodes' = << >>
    /\ edges' = << >>
    /\ result' = ""
    /\ showModal' = FALSE
    /\ selectedNode' = NullNode
    /\ nodeParams' = EmptyParams
    /\ executing' = 0
    /\ created' = << >>
    /\ edits' = 0
    /\ last' = Did("unmount", NoId)
    /\ UNCHANGED <<build, mounts>>

----------------------------------------------------------------------------
(* The component, and the parts of it the properties are checked on *)

\* a drop, with the payloads, clock values and random strings the run allows
Drops(texts, ticks, randoms) ==
    \E toolData \in texts, point \in DropPoints, now \in ticks, random \in randoms :
        OnDrop(toolData, point, now, random)

Connects == \E source \in Ids(nodes), target \in Ids(nodes) : OnConnect(source, target)

StatusEvents ==
    \E nodeId \in Ids(nodes) \cup {StaleId}, status \in Statuses :
        NodeProcessing(nodeId, status)

CompleteEvents == \E res \in Results : ExecutionComplete(res)

Clicks == \E i \in 1..MaxNodes : OnNodeClick(i)

Changes ==
    \E label \in ToolNames : \E paramName \in ParamNames(label), value \in ParamTexts :
        HandleParamChange(paramName, value)

Saves == (\E message \in SaveMessages : SaveWorkflowOk(message)) \/ SaveWorkflowFailed

\* drags that start on the palette
ToolTexts == {JSONStringify(tools[i]) : i \in DOMAIN tools}

\* drags of the first two tools of the palette
SyncTexts == {JSONStringify(tools[1]), JSONStringify(tools[2])}

\* one value of Math.random().toString(36)
OneRandom == {<<"0", ".", "1">>}

\* a clock that moves on by one between drops
NextTick == {Len(created) + 1}

\* connecting a node to the one dropped after it
ChainConnects ==
    \E i \in DOMAIN nodes : i + 1 \in DOMAIN nodes /\ OnConnect(nodes[i].id, nodes[i + 1].id)

\* the whole component
Next ==
    \/ Drops(DropTexts, Ticks, RandomStrings)
    \/ Connects
    \/ StatusEvents
    \/ CompleteEvents
    \/ Clicks
    \/ Changes
    \/ HandleParamSubmit
    \/ Cancel
    \/ Saves
    \/ ExecuteWorkflow
    \/ ExecuteAnswered
    \/ ExecuteFailed
    \/ Mount
    \/ Unmount

Spec == Init /\ [][Next]_vars

\* building the graph: every payload, clock value and random string
NextGraph ==
    \/ Drops(DropTexts, Ticks, RandomStrings)
    \/ Connects

SpecGraph == Init /\ [][NextGraph]_vars

\* a graph dragged from the palette and its runs
NextSync ==
    \/ Drops(SyncTexts, NextTick, OneRandom)
    \/ ChainConnects
    \/ StatusEvents
    \/ CompleteEvents
    \/ ExecuteWorkflow
    \/ ExecuteAnswered
    \/ ExecuteFailed

SpecSync == Init /\ [][NextSync]_vars

\* a graph dragged from the palette and its parameter modal
NextEditor ==
    \/ Drops(ToolTexts, NextTick, OneRandom)
    \/ Clicks
    \/ Changes
    \/ HandleParamSubmit
    \/ Cancel

SpecEditor == Init /\ [][NextEditor]_vars

\* the component rendered, removed and rendered again, and the events the
\* socket receives meanwhile
NextMount ==
    \/ Mount
    \/ Unmount
    \/ Drops(SyncTexts, NextTick, OneRandom)
    \/ StatusEvents
    \/ CompleteEvents

SpecMount == Init /\ [][NextMount]_vars

\* drags of the first tool of the palette
CanvasTexts == {JSONStringify(tools[1])}

\* one text typed into a field: "{}"
CanvasParamTexts == {<<LBrace, RBrace>>}

CanvasChanges ==
    \E label \in ToolNames :
        \E paramName \in ParamNames(label), value \in CanvasParamTexts :
            HandleParamChange(paramName, value)

\* a node starting and a node finishing
CanvasStatuses == {"processing", "completed"}

\* events that name a node of the graph
CanvasStatusEvents ==
    \E nodeId \in Ids(nodes), status \in CanvasStatuses : NodeProcessing(nodeId, status)

\* clicks on the node dropped first
CanvasClicks == OnNodeClick(1)

\* a graph of one tool with its modal and its runs together
NextCanvas ==
    \/ Drops(CanvasTexts, NextTick, OneRandom)
    \/ ChainConnects
    \/ CanvasStatusEvents
    \/ CanvasClicks
    \/ CanvasChanges
    \/ HandleParamSubmit
    \/ Cancel
    \/ Saves
    \/ ExecuteWorkflow
    \/ ExecuteAnswered

SpecCanvas == Init /\ [][NextCanvas]_vars

\* events that say a node of the graph has started
StartEvents == \E nodeId \in Ids(nodes) : NodeProcessing(nodeId, "processing")

\* every handler that writes the nodes, on a graph of one tool whose nodes only
\* start
NextIdentity ==
    \/ Drops(CanvasTexts, NextTick, OneRandom)
    \/ ChainConnects
    \/ StartEvents
    \/ CompleteEvents
    \/ CanvasClicks
    \/ CanvasChanges
    \/ HandleParamSubmit
    \/ Cancel
    \/ Saves
    \/ ExecuteWorkflow
    \/ ExecuteAnswered

SpecIdentity == Init /\ [][NextIdentity]_vars

----------------------------------------------------------------------------
(* Properties of the status events (SpecSync) *)

Present(id) == id \in Ids(nodes)

\* C1: a node_processing event whose nodeId matches no node of the graph does
\* not throw and leaves the graph as it was: the same nodes, each with its id,
\* tool, position, parameters and status, and the same edges.
StrayEventLeavesGraph ==
    [][(last'.op = "node_processing" /\ ~Present(last'.id))
          => (~last'.threw /\ nodes' = nodes /\ edges' = edges)]_vars

StrayEventSeen ==
    /\ last.op = "node_processing"
    /\ ~Present(last.id)
    /\ Len(nodes) >= 2
    /\ \E i \in DOMAIN nodes : RuntimeStatus(nodes[i]) # "idle"
    /\ Len(edges) >= 1

\* C2: after execution_complete every node of the graph is idle, whatever its
\* status was before, and the stored result is the result the event carried.
CompleteResetsEveryNode ==
    last.op = "execution_complete"
        => /\ \A i \in DOMAIN nodes : RuntimeStatus(nodes[i]) = "idle"
           /\ result = last.arg

CompleteSeenOverMixedStatuses ==
    /\ last.op = "execution_complete"
    /\ "idle" \in last.prior
    /\ \E s \in {"completed", "failed"} : s \in last.prior
    /\ result = "done"

Terminal == {"completed", "failed"}

\* C3: within a run a completed or failed node never changes to processing or
\* to the other terminal status, and a node returns to idle only through the
\* reset of execute or of execution_complete.
StatusFollowsStateMachine ==
    [][\A i \in DOMAIN nodes :
          /\ RuntimeStatus(nodes[i]) \in Terminal
                => RuntimeStatus(nodes'[i]) \in {RuntimeStatus(nodes[i]), "idle"}
          /\ (RuntimeStatus(nodes[i]) # "idle" /\ RuntimeStatus(nodes'[i]) = "idle")
                => last'.op \in {"execute", "execution_complete"}]_vars

----------------------------------------------------------------------------
(* Properties of the parameter modal (SpecEditor) *)

SameParameters == \A i \in DOMAIN nodes : nodes'[i].parameters = nodes[i].parameters

Committed == last'.op = "submit" /\ last'.alert = ""

\* C4: a submit whose draft fails validation (as llm_tool without an apiKey
\* does) leaves the modal open on the same node, the draft as it was and the
\* graph untouched.
RejectedSubmitKeepsEverything ==
    [][(last'.op = "submit" /\ validateRequiredFields(nodeParams, selectedNode.label) # "")
          => /\ showModal' /\ selectedNode' = selectedNode /\ nodeParams' = nodeParams
             /\ nodes' = nodes /\ edges' = edges]_vars

\* C5: a submit that succeeds closes the modal and makes the draft the
\* parameters of the selected node, and of no other; the draft is what the
\* node held when the modal opened with every edited field overridden.
SubmitStoresTheDraft ==
    [][/\ Committed
          => /\ ~showModal'
             /\ Len(nodes') = Len(nodes)
             /\ \A i \in DOMAIN nodes :
                   nodes'[i] = IF nodes[i].id = selectedNode.id
                               THEN [nodes[i] EXCEPT !.parameters = nodeParams]
                               ELSE nodes[i]
       /\ last'.op = "click"
          => \E i \in DOMAIN nodes :
                nodes[i].id = last'.id /\ nodeParams' = nodes[i].parameters
       /\ last'.op = "change"
          => \E k \in DOMAIN nodeParams' :
                /\ DOMAIN nodeParams' = (DOMAIN nodeParams) \cup {k}
                /\ \A x \in (DOMAIN nodeParams) \ {k} : nodeParams'[x] = nodeParams[x]]_vars

SubmitStoredADraft ==
    /\ last.op = "submit"
    /\ last.alert = ""
    /\ ~showModal
    /\ \E i, j \in DOMAIN nodes :
          /\ nodes[i].id = last.id
          /\ nodes[i].parameters # EmptyParams
          /\ nodes[j].id # last.id
          /\ nodes[j].parameters # nodes[i].parameters

\* C6: cancel closes the modal and leaves the graph as it was; the draft it
\* discards is not seen again: whenever the modal opens, its draft is the
\* stored parameters of the node it opens on, and nothing writes parameters
\* while the modal is closed.
CancelDiscardsTheDraft ==
    [][/\ last'.op = "cancel" => (~showModal' /\ nodes' = nodes /\ edges' = edges)
       /\ (~showModal /\ showModal')
          => \E i \in DOMAIN nodes :
                nodes[i].id = selectedNode'.id /\ nodeParams' = nodes[i].parameters
       /\ ~showModal => SameParameters]_vars

CancelledAnEditedDraft ==
    /\ last.op = "cancel"
    /\ ~showModal
    /\ nodeParams # EmptyParams
    /\ \A i \in DOMAIN nodes : nodes[i].parameters = EmptyParams

\* C7: opening the modal and editing its fields changes the draft only: until
\* a submit succeeds, every node keeps the parameters it had.
EditsChangeOnlyTheDraft ==
    [][/\ last'.op \in {"click", "change"} => (nodes' = nodes /\ edges' = edges)
       /\ (showModal /\ ~Committed) => SameParameters]_vars

DraftAheadOfTheNode ==
    /\ last.op = "change"
    /\ showModal
    /\ \E i \in DOMAIN nodes :
          nodes[i].id = selectedNode.id /\ nodes[i].parameters # nodeParams

----------------------------------------------------------------------------
(* Properties of drops (SpecGraph) *)

Suffix(i) == Substr(created[i].random, 2, 9)

\* C8 as stated: no two nodes of the graph have the same id.
NodeIdsAreUnique ==
    \A i, j \in DOMAIN nodes : i # j => nodes[i].id # nodes[j].id

\* C8: two nodes have the same id only if they were created at the same value
\* of the clock with the same random suffix; created at different clock values,
\* or with different suffixes, they have different ids.
NodeIdsDifferWithTheDraw ==
    \A i, j \in DOMAIN nodes :
        (created[i].now # created[j].now \/ Suffix(i) # Suffix(j))
            => nodes[i].id # nodes[j].id

SameTickOtherSuffix ==
    \E i, j \in DOMAIN nodes :
        /\ i # j
        /\ created[i].now = created[j].now
        /\ Suffix(i) # Suffix(j)
        /\ nodes[i].id # nodes[j].id

IsToolDrop(r) == r.op = "drop" /\ r.text \in ToolTexts

\* C9: a drop that carries a tool adds one node, named after that tool, with
\* no parameters and idle, after the nodes that were there, which stay as they
\* were, as do the edges.
ToolDropAddsOneNode ==
    [][IsToolDrop(last')
          => /\ ~last'.threw
             /\ Len(nodes') = Len(nodes) + 1
             /\ SubSeq(nodes', 1, Len(nodes)) = nodes
             /\ \E k \in DOMAIN tools :
                   /\ last'.text = JSONStringify(tools[k])
                   /\ nodes'[Len(nodes')].label = tools[k].name
             /\ nodes'[Len(nodes')].id = last'.id
             /\ nodes'[Len(nodes')].parameters = EmptyParams
             /\ RuntimeStatus(nodes'[Len(nodes')]) = "idle"
             /\ edges' = edges]_vars

ToolDroppedOnAGraph ==
    /\ IsToolDrop(last)
    /\ Len(nodes) >= 2
    /\ Len(edges) >= 1
    /\ nodes[Len(nodes)].label \in ToolNames

\* C10: a drop whose payload is no tool (no payload, or text that does not
\* parse to a tool) does not throw and leaves nodes and edges as they were.
InvalidDropIsNoOp ==
    [][(last'.op = "drop" /\ last'.text \notin ToolTexts)
          => (~last'.threw /\ nodes' = nodes /\ edges' = edges)]_vars

----------------------------------------------------------------------------
(* Properties of connect (SpecGraph) *)

\* C11: a connect of two nodes of the graph (of one node with itself, or of a
\* pair that an edge already joins, included) does not throw, adds one edge
\* with that source and that target after the edges that were there, which
\* stay as they were, and leaves the nodes as they were.
ConnectAppendsOneEdge ==
    [][last'.op = "connect"
          => /\ ~last'.threw
             /\ nodes' = nodes
             /\ edges' = Append(edges, [source |-> last'.id, target |-> last'.target])]_vars

----------------------------------------------------------------------------
(* Properties of save (SpecCanvas) *)

Saved(r) == r.op \in {"save", "save_failed"}

\* C12: the document of a save carries no runtime status: no node of it has a
\* style entry, and it is the document the graph would give with every node
\* idle.
SavedDocumentHasNoStatus ==
    [][Saved(last')
          => /\ \A i \in DOMAIN SaveDocument.nodes : SaveDocument.nodes[i].style = {}
             /\ SaveDocument = Document(ResetBackground(nodes), edges)]_vars

\* C17: a save reports to the user, the endpoint's message when the request
\* is answered and a failure message when it fails, and changes nothing: the
\* nodes, the edges, the modal with its draft and the stored result are after
\* the save what they were before it.
SaveReportsAndKeepsState ==
    [][Saved(last')
          => /\ last'.alert # ""
             /\ (last'.op = "save") => (last'.alert \in SaveMessages)
             /\ nodes' = nodes
             /\ edges' = edges
             /\ result' = result
             /\ showModal' = showModal
             /\ selectedNode' = selectedNode
             /\ nodeParams' = nodeParams]_vars

----------------------------------------------------------------------------
(* Properties of mount and unmount (SpecMount) *)

\* C13: through mounts and unmounts each of the two events has one registered
\* handler while the component is mounted and none while it is not, so an
\* event the socket receives is given to one handler while the component is
\* mounted (never to two after a remount) and to none otherwise.
HandlersRegisteredOnce ==
    /\ mounted => (listeners.node_processing = 1 /\ listeners.execution_complete = 1)
    /\ ~mounted => listeners = NoListeners
    /\ last.op \in {"node_processing", "execution_complete"}
          => last.applied = IF mounted THEN 1 ELSE 0

EventAfterRemount ==
    /\ mounts >= 2
    /\ mounted
    /\ last.op = "node_processing"
    /\ Present(last.id)
    /\ last.applied = 1
    /\ \E i \in DOMAIN nodes : nodes[i].id = last.id /\ RuntimeStatus(nodes[i]) = last.arg

----------------------------------------------------------------------------
(* Properties of execute (SpecSync) *)

\* C14: when an execute request has been issued, before any event of its run
\* is handled, every node is idle and the stored result is empty: no status
\* and no result of an earlier run is left.
ExecuteStartsFromIdle ==
    last.op = "execute"
        => /\ \A i \in DOMAIN nodes : RuntimeStatus(nodes[i]) = "idle"
           /\ result = ""

ExecutedOverAnEarlierRun ==
    /\ last.op = "execute"
    /\ Len(nodes) >= 2
    /\ \E s \in Statuses : s \in last.prior
    /\ last.arg # ""

----------------------------------------------------------------------------
(* Properties of the validation at submit (SpecEditor) *)

\* a field with text in it that is not well-formed
Malformed(text) == Truthy(text) /\ ~JSONParse(text).ok

SubmitOn(label) == last'.op = "submit" /\ selectedNode.label = label

\* C15: a submit on a fetch_from_rest_api_tool node is rejected exactly when
\* the headers or the body of the draft has text that is not well-formed, and
\* goes through when each is empty, absent or well-formed; the rejection names
\* the field, and names headers when headers is malformed, whatever body is.
FetchSubmitChecksHeadersAndBody ==
    [][SubmitOn("fetch_from_rest_api_tool")
          => LET headers == Get(nodeParams, "headers")
                 body == Get(nodeParams, "body")
             IN  /\ Committed <=> ~(Malformed(headers) \/ Malformed(body))
                 /\ ~Committed => (showModal' /\ nodes' = nodes)
                 /\ Malformed(headers) => last'.alert = "Invalid JSON in headers"
                 /\ (~Malformed(headers) /\ Malformed(body))
                       => last'.alert = "Invalid JSON in body"]_vars

RuleTable == {"llm_tool", "fetch_from_rest_api_tool"}

\* a parameter the schema marks required has no text in the draft
RequiredMissing(params, label) ==
    \E i \in DOMAIN toolParameters(label) :
        /\ toolParameters(label)[i].required
        /\ ~Truthy(Get(params, toolParameters(label)[i].name))

\* C16: a submit on a node of a tool outside the rule table is rejected if and
\* only if a parameter that the tool's schema marks required is empty or
\* missing in the draft.
OtherToolSubmitChecksRequired ==
    [][(last'.op = "submit" /\ selectedNode.label \notin RuleTable)
          => (~Committed <=> RequiredMissing(nodeParams, selectedNode.label))]_vars

----------------------------------------------------------------------------
(* Properties of the graph under edits and runs together (SpecCanvas) *)

\* C18: the source and the target of every edge are ids of nodes of the
\* graph, whatever drops, connects, edits of parameters, status events and
\* executes came before.
NoDanglingEdge ==
    \A i \in DOMAIN edges : Present(edges[i].source) /\ Present(edges[i].target)

EdgeOnAnEditedRunningGraph ==
    /\ Len(edges) >= 1
    /\ edges[1].source # edges[1].target
    /\ \E i \in DOMAIN nodes : nodes[i].parameters # EmptyParams
    /\ \E i \in DOMAIN nodes : RuntimeStatus(nodes[i]) # "idle"
    /\ executing > 0

UserOps == {"drop", "connect", "click", "change", "submit", "cancel", "save", "save_failed"}

\* C19: a drop, a connect, a click on a node, an edit of a field, a submit, a
\* cancel and a save leave every node of the graph with the runtime status it
\* had; a submit on a node whose status changed while the modal was open
\* leaves it with the status of now, not with the one of the click.
UserOpsKeepStatus ==
    [][last'.op \in UserOps
          => \A i \in DOMAIN nodes :
                /\ i \in DOMAIN nodes'
                /\ nodes'[i].id = nodes[i].id
                /\ RuntimeStatus(nodes'[i]) = RuntimeStatus(nodes[i])]_vars

SubmitUnderANewerStatus ==
    /\ last.op = "submit"
    /\ last.alert = ""
    /\ \E i \in DOMAIN nodes :
          /\ nodes[i].id = last.id
          /\ nodes[i].parameters # EmptyParams
          /\ RuntimeStatus(nodes[i]) # "idle"
          /\ RuntimeStatus(nodes[i]) \notin last.prior

----------------------------------------------------------------------------
(* Properties of a status event for a node of the graph (SpecSync) *)

\* C20: a node_processing event that names a node of the graph with status
\* processing, completed or failed leaves that node with that status, whatever
\* status it had (idle included, also for completed and failed), and changes
\* nothing else: the other nodes keep their status, every node keeps its id,
\* tool, position and parameters, and the edges stay as they were.
EventSetsTheStatus ==
    [][(last'.op = "node_processing" /\ Present(last'.id) /\ last'.arg \in Statuses)
          => /\ Len(nodes') = Len(nodes)
             /\ \A i \in DOMAIN nodes :
                   /\ nodes'[i].id = nodes[i].id
                   /\ nodes'[i].label = nodes[i].label
                   /\ nodes'[i].position = nodes[i].position
                   /\ nodes'[i].parameters = nodes[i].parameters
                   /\ RuntimeStatus(nodes'[i]) =
                         IF nodes[i].id = last'.id THEN last'.arg
                         ELSE RuntimeStatus(nodes[i])
             /\ edges' = edges]_vars

IdleStraightToTerminal ==
    /\ last.op = "node_processing"
    /\ last.arg \in Terminal
    /\ last.prior = {"idle"}
    /\ Len(edges) >= 1
    /\ \E i, j \in DOMAIN nodes :
          /\ nodes[i].id = last.id
          /\ RuntimeStatus(nodes[i]) = last.arg
          /\ nodes[j].id # last.id
          /\ RuntimeStatus(nodes[j]) \notin {"idle", last.arg}

----------------------------------------------------------------------------
(* Properties of the modal opened on one node after another (SpecEditor) *)

\* C23: a click on a node selects that node and makes its stored parameters
\* the draft, also while the modal is open on another node with edits that
\* were not saved; no edit, cancel or rejected submit changes the selection;
\* and a submit that succeeds writes the draft to the selected node, the one
\* of the last click, and leaves every other node as it was.
SubmitWritesTheLastOpened ==
    [][/\ last'.op = "click"
          => /\ showModal'
             /\ selectedNode'.id = last'.id
             /\ Present(last'.id)
             /\ \A i \in DOMAIN nodes :
                   nodes[i].id = last'.id => nodeParams' = nodes[i].parameters
             /\ nodes' = nodes
       /\ (last'.op \in {"change", "cancel"} \/ (last'.op = "submit" /\ ~Committed))
          => selectedNode' = selectedNode
       /\ Committed
          => /\ Len(nodes') = Len(nodes)
             /\ \A i \in DOMAIN nodes :
                   /\ nodes[i].id = selectedNode.id => nodes'[i].parameters = nodeParams
                   /\ nodes[i].id # selectedNode.id => nodes'[i] = nodes[i]]_vars

OpenedOverAnEditedDraft ==
    /\ last.op = "click"
    /\ last.target # NoId
    /\ last.target # last.id
    /\ showModal
    /\ selectedNode.id = last.id
    /\ nodeParams # EmptyParams
    /\ \E i, j \in DOMAIN nodes :
          /\ nodes[i].id = last.id
          /\ nodes[i].parameters = nodeParams
          /\ nodes[j].id = last.target
          /\ nodes[j].parameters = EmptyParams

----------------------------------------------------------------------------
(* Properties of node identity (SpecIdentity) *)

\* C21: no status event, execution_complete, execute, submit, cancel, connect,
\* save or further drop changes the id of a node or removes a node: each node
\* is after the step where it was before it, with the id it had, so that
\* the ids of the graph only grow, and every node has the id it was created
\* with.
NodeIdsAreStable ==
    [][/\ \A i \in DOMAIN nodes : i \in DOMAIN nodes' /\ nodes'[i].id = nodes[i].id
       /\ Ids(nodes) \subseteq Ids(nodes')
       /\ Len(created') = Len(nodes')
       /\ \A i \in DOMAIN nodes' :
             nodes'[i].id = UniqueId(created'[i].now, created'[i].random)]_vars

IdsKeptThroughEditsAndRuns ==
    /\ last.op = "execution_complete"
    /\ Len(nodes) >= 2
    /\ Len(edges) >= 1
    /\ "processing" \in last.prior
    /\ \E i \in DOMAIN nodes : nodes[i].parameters # EmptyParams
    /\ \A i \in DOMAIN nodes :
          nodes[i].id = UniqueId(created[i].now, created[i].random)

----------------------------------------------------------------------------
(* Properties of a failed execute (SpecSync) *)

FailureMessages == {"Error executing workflow"}

SameGraphButStatus ==
    /\ Len(nodes') = Len(nodes)
    /\ \A i \in DOMAIN nodes :
          /\ nodes'[i].id = nodes[i].id
          /\ nodes'[i].label = nodes[i].label
          /\ nodes'[i].position = nodes[i].position
          /\ nodes'[i].parameters = nodes[i].parameters
    /\ edges' = edges

\* C22: when the execute request fails, the stored result becomes a failure
\* message, and neither the execute nor its failure changes the id, tool,
\* position or parameters of a node, or the edges.
ExecuteFailureIsShown ==
    [][/\ last'.op = "execute_failed" => (result' \in FailureMessages /\ SameGraphButStatus)
       /\ last'.op = "execute" => SameGraphButStatus]_vars

====
